---- MODULE Spec2Model ----
(***************************************************************************)
(* The pet-store pair of services: two "petstore" catalog instances        *)
(* (src/petstore/app.py, models.py, ninja_client.py) and the "pet-order"   *)
(* service with its transaction ledger (src/pet-order/app.py).             *)
(*                                                                         *)
(* A JSON object is a function whose DOMAIN is the set of keys present.    *)
(* Python's None is the string "None"; pet-type ids, which the code keeps  *)
(* as str(n), are the numbers n (str is injective on them).                *)
(***************************************************************************)
EXTENDS Integers, Sequences, FiniteSets, TLC

VARIABLES
    pet_types,         \* [store -> [id -> pet-type object]]       models.py:11
    pets_by_type,      \* [store -> [id -> [lower name -> pet]]]   models.py:15
    type_name_to_id,   \* [store -> [lower type name -> id]]       models.py:18
    next_pet_type_id,  \* [store -> n]                             models.py:21
    pictures,          \* [store -> set of files in pictures/]     app.py:181
    resp,              \* the last exchange a catalog client had with an instance
    transactions,      \* the ledger collection, in insertion order  pet-order/app.py:16
    removed,           \* the pets the order service's DELETE removed (204), in order
    pc,                \* [worker -> where its purchase request stands]
    data,              \* [worker -> the purchase request body]
    stores_to_check,   \* [worker -> the stores still to try, current first]
    pet_type_id,       \* [worker -> id found at the current store]
    chosen,            \* [worker -> <<>> or <<[store_id, pet_type_id, pet_name]>>]
    status,            \* [worker -> status of the remote DELETE, or "None"]
    tried,             \* [worker -> the stores asked so far, in order]
    order_resp,        \* [worker -> the response of its last purchase request]
    n_purchases        \* [worker -> purchase requests it received so far]

catalog_vars == <<pet_types, pets_by_type, type_name_to_id, next_pet_type_id, pictures>>
order_vars == <<transactions, removed, pc, data, stores_to_check, pet_type_id,
                chosen, status, tried, order_resp, n_purchases>>
vars == <<pet_types, pets_by_type, type_name_to_id, next_pet_type_id, pictures, resp,
          transactions, removed, pc, data, stores_to_check, pet_type_id,
          chosen, status, tried, order_resp, n_purchases>>

(***************************************************************************)
(* Bounds and input sets                                                   *)
(***************************************************************************)
MaxTypeId == 2        \* pet-type ids handed out per instance
MaxPets == 2          \* entries of one instance's "pets" lists, all types together
MaxPurchases == 1     \* purchase requests one worker of the order service accepts

Stores == {1, 2}
Workers == {1, 2}
None == "None"
NA == "NA"

\* ------------------------------------------------------------------------
\* Python helpers
\* ------------------------------------------------------------------------

\* str.lower() on the strings the model uses
Lower(s) ==
    CASE s = "Bulldog" -> "bulldog"
      [] s = "BULLDOG" -> "bulldog"
      [] s = "Australian Shepherd" -> "australian shepherd"
      [] s = "Abyssinian" -> "abyssinian"
      [] s = "Rex" -> "rex"
      [] s = "REX" -> "rex"
      [] s = "Max" -> "max"
      [] s = "Loyal" -> "loyal"
      [] s = "Intelligent" -> "intelligent"
      [] s = "Gentle" -> "gentle"
      [] s = "Fierce," -> "fierce,"
      [] s = "Proud!" -> "proud!"
      [] OTHER -> s

\* str.translate(str.maketrans("", "", string.punctuation)) on one
\* whitespace-free piece of text
StripPunctuation(w) ==
    CASE w = "fierce," -> "fierce"
      [] w = "proud!" -> "proud"
      [] w = "&" -> ""
      [] OTHER -> w

\* truth value of a Python str-or-None
Truthy(x) == x # None /\ x # ""

\* dict with d[k] = v
Put(d, k, v) == [x \in DOMAIN d \cup {k} |-> IF x = k THEN v ELSE d[x]]
\* dict after d.pop(k, None)
Pop(d, k) == [x \in DOMAIN d \ {k} |-> d[x]]
EmptyDict == [x \in {} |-> None]

Absent == "(absent)"
\* The JSON object with the keys whose value is not Absent
Json(name, birthdate, picture_url) ==
    [k \in {x \in {"name", "birthdate", "picture-url"} :
              \/ x = "name" /\ name # Absent
              \/ x = "birthdate" /\ birthdate # Absent
              \/ x = "picture-url" /\ picture_url # Absent} |->
        CASE k = "name" -> name
          [] k = "birthdate" -> birthdate
          [] k = "picture-url" -> picture_url]

Contains(seq, x) == \E i \in 1..Len(seq) : seq[i] = x

\* ------------------------------------------------------------------------
\* Taxonomy resolver (src/petstore/ninja_client.py)
\* ------------------------------------------------------------------------

ASSN4_PETTYPE_MAP ==
    [k \in {"golden retriever", "australian shepherd", "abyssinian", "bulldog"} |->
        CASE k = "golden retriever" ->
               [family |-> "Canidae", genus |-> "Canis",
                attributes |-> <<>>, lifespan |-> 12]
          [] k = "australian shepherd" ->
               [family |-> "Canidae", genus |-> "Canis",
                attributes |-> <<"Loyal", "outgoing", "and", "friendly">>,
                lifespan |-> 15]
          [] k = "abyssinian" ->
               [family |-> "Felidae", genus |-> "Felis",
                attributes |-> <<"Intelligent", "and", "curious">>,
                lifespan |-> 13]
          [] k = "bulldog" ->
               [family |-> "Canidae", genus |-> "Canis",
                attributes |-> <<"Gentle", "calm", "and", "affectionate">>,
                lifespan |-> None]]

\* A text is the sequence of its whitespace-separated pieces (<<>>: None or
\* the empty text, which Python's "if not text" does not tell apart):
\* lowercase, strip punctuation, split, drop what is empty.
temperament_to_attributes(text) ==
    IF text = <<>> THEN <<>>
    ELSE LET words == [i \in 1..Len(text) |-> StripPunctuation(Lower(text[i]))]
         IN  SelectSeq(words, LAMBDA w : w # "")

\* min(int(n) for n in nums), nums the digit runs of the lifespan text
RECURSIVE MinOf(_)
MinOf(nums) ==
    IF Len(nums) = 1 THEN nums[1]
    ELSE LET m == MinOf(Tail(nums))
         IN  IF nums[1] < m THEN nums[1] ELSE m

NoInfo == [family |-> "", genus |-> "", attributes |-> <<>>, lifespan |-> None]

\* The entry the animals API holds for "dragon"; lifespan is the list of the
\* digit runs re.findall finds in its text.
DragonEntry ==
    [name |-> "dragon", family |-> "Varanidae", genus |-> "Varanus",
     temperament |-> <<>>, group_behavior |-> <<"Fierce,", "&", "Proud!">>,
     lifespan |-> <<30, 25>>]

\* What the world outside answers to the lookup of a name the table lacks:
\* whether NINJA_API_KEY is set, the status code and the entries returned.
UpstreamAnswers ==
    { [api_key |-> FALSE, status_code |-> 200, json |-> <<>>],
      [api_key |-> TRUE, status_code |-> 400, json |-> <<>>],
      [api_key |-> TRUE, status_code |-> 503, json |-> <<>>],
      [api_key |-> TRUE, status_code |-> 200, json |-> <<>>],
      [api_key |-> TRUE, status_code |-> 200, json |-> <<DragonEntry>>] }

\* First entry of json whose name equals type_name ignoring case, as <<e>>
Matching(json, type_name) ==
    LET hits == SelectSeq(json, LAMBDA e : Lower(e.name) = Lower(type_name))
    IN  IF hits = <<>> THEN <<>> ELSE <<Head(hits)>>

\* exc is the exception raised ("None": it returned info)
fetch_pet_type_data(type_name, upstream) ==
    LET key == Lower(type_name)
        hit == Matching(upstream.json, type_name)
        e == hit[1]
        attributes_str == IF e.temperament # <<>> THEN e.temperament
                          ELSE IF e.group_behavior # <<>> THEN e.group_behavior
                          ELSE <<>>
    IN  IF key \in DOMAIN ASSN4_PETTYPE_MAP
          THEN [exc |-> "None", status_code |-> 0, info |-> ASSN4_PETTYPE_MAP[key]]
        ELSE IF ~upstream.api_key
          THEN [exc |-> "RuntimeError", status_code |-> 0, info |-> NoInfo]
        ELSE IF upstream.status_code = 400
          THEN [exc |-> "NinjaNotFound", status_code |-> 400, info |-> NoInfo]
        ELSE IF upstream.status_code # 200
          THEN [exc |-> "NinjaApiError", status_code |-> upstream.status_code,
                info |-> NoInfo]
        ELSE IF hit = <<>>
          THEN [exc |-> "NinjaNotFound", status_code |-> 200, info |-> NoInfo]
        ELSE [exc |-> "None", status_code |-> 200,
              info |-> [family |-> e.family, genus |-> e.genus,
                        attributes |-> temperament_to_attributes(attributes_str),
                        lifespan |-> IF e.lifespan = <<>> THEN None
                                     ELSE MinOf(e.lifespan)]]

\* ------------------------------------------------------------------------
\* Catalog store (src/petstore/models.py)
\* ------------------------------------------------------------------------

\* The lookup with the name as given, not lowered
pet_type_exists_by_name_as_given(s, type_name) ==
    type_name \in DOMAIN type_name_to_id[s]

pet_type_exists_by_name(s, type_name) ==
    Lower(type_name) \in DOMAIN type_name_to_id[s]

\* register_pet_type, on the three maps of instance s
register_pet_type(s, pet_type_obj) ==
    /\ pet_types' = [pet_types EXCEPT ![s] = Put(@, pet_type_obj.id, pet_type_obj)]
    /\ pets_by_type' = [pets_by_type EXCEPT ![s] = Put(@, pet_type_obj.id, EmptyDict)]
    /\ type_name_to_id' = [type_name_to_id EXCEPT
                             ![s] = Put(@, Lower(pet_type_obj.type), pet_type_obj.id)]

\* remove_pet_type, called with an id that is registered
remove_pet_type(s, id) ==
    /\ pet_types' = [pet_types EXCEPT ![s] = Pop(@, id)]
    /\ pets_by_type' = [pets_by_type EXCEPT ![s] = Pop(@, id)]
    /\ type_name_to_id' = [type_name_to_id EXCEPT
                             ![s] = Pop(@, Lower(pet_types[s][id].type))]

\* pets_by_type.get(pet_type_id, {})
get_pets_for_type(s, id) ==
    IF id \in DOMAIN pets_by_type[s] THEN pets_by_type[s][id] ELSE EmptyDict

\* The "pets" list of type id after add_pet: the name is appended unless the
\* list holds that very string.
PetsAfterAdd(pets, name) ==
    IF Contains(pets, name) THEN pets ELSE Append(pets, name)

\* add_pet, for a registered type id
add_pet(s, id, internal_pet) ==
    /\ pets_by_type' = [pets_by_type EXCEPT
                          ![s][id] = Put(@, Lower(internal_pet.name), internal_pet)]
    /\ pet_types' = [pet_types EXCEPT
                       ![s][id].pets = PetsAfterAdd(@, internal_pet.name)]

\* The filter comparing the names as stored
PetsAfterDelete_as_stored(pets, name_lower) ==
    SelectSeq(pets, LAMBDA n : n # name_lower)

\* The "pets" list of a type after delete_pet removed name_lower
PetsAfterDelete(pets, name_lower) ==
    SelectSeq(pets, LAMBDA n : Lower(n) # name_lower)

\* delete_pet, for a registered type id holding the pet
\* A deletion that leaves the pet where it is
delete_pet_forgets(s, id, pet_name) ==
    UNCHANGED <<pets_by_type, pet_types>>

delete_pet(s, id, pet_name) ==
    /\ pets_by_type' = [pets_by_type EXCEPT ![s][id] = Pop(@, Lower(pet_name))]
    /\ pet_types' = [pet_types EXCEPT
                       ![s][id].pets = PetsAfterDelete(@, Lower(pet_name))]

pet_to_json(internal_pet) ==
    [name |-> internal_pet.name, birthdate |-> internal_pet.birthdate,
     picture |-> internal_pet.picture]

\* The date strings the model uses that strptime("%d-%m-%Y") accepts
parse_date_ok(date_str) == date_str \in {"01-01-2020", "02-02-2021"}

\* Entries of all the "pets" lists of instance s
RECURSIVE SumPets(_, _)
SumPets(s, ids) ==
    IF ids = {} THEN 0
    ELSE LET id == CHOOSE x \in ids : TRUE
         IN  Len(pet_types[s][id].pets) + SumPets(s, ids \ {id})
TotalPets(s) == SumPets(s, DOMAIN pet_types[s])

\* ------------------------------------------------------------------------
\* Catalog service (src/petstore/app.py)
\* ------------------------------------------------------------------------

\* What a catalog client sent and got back: the handler, the instance, the
\* id and name of the URL, the JSON body sent, the status and "error" text of
\* the response, its JSON (<<>> or <<object>>), and the requests.get and
\* os.remove calls the handler made on pictures.
Reply(op, s, id, name, body, code, error, json, downloads, removals) ==
    resp' = [op |-> op, store |-> s, id |-> id, name |-> name, data |-> body,
             status |-> code, error |-> error, json |-> json,
             downloads |-> downloads, removals |-> removals]

NoReply ==
    [op |-> "None", store |-> 0, id |-> 0, name |-> "", data |-> EmptyDict,
     status |-> 0, error |-> "", json |-> <<>>, downloads |-> <<>>, removals |-> <<>>]

\* POST /pet-types
create_pet_type(s, body, upstream) ==
    LET type_name == body["type"]
        r == fetch_pet_type_data(type_name, upstream)
        pet_type_obj == [id |-> next_pet_type_id[s], type |-> type_name,
                         family |-> r.info.family, genus |-> r.info.genus,
                         attributes |-> r.info.attributes,
                         lifespan |-> r.info.lifespan, pets |-> <<>>]
        fail(code, error) ==
            /\ Reply("create_pet_type", s, 0, "", body, code, error, <<>>, <<>>, <<>>)
            /\ UNCHANGED catalog_vars
    IN  /\ IF body = EmptyDict \/ "type" \notin DOMAIN body
             THEN fail(400, "Malformed data")
           ELSE IF pet_type_exists_by_name(s, type_name)
             THEN fail(400, "Malformed data")
           ELSE IF r.exc = "NinjaNotFound"
             THEN fail(400, "Malformed data")
           ELSE IF r.exc = "NinjaApiError"
             THEN fail(500, "API response code")
           ELSE IF r.exc # "None"
             THEN fail(500, "API call failed")
           ELSE /\ next_pet_type_id[s] <= MaxTypeId
                /\ next_pet_type_id' = [next_pet_type_id EXCEPT ![s] = @ + 1]
                /\ register_pet_type(s, pet_type_obj)
                /\ UNCHANGED pictures
                /\ Reply("create_pet_type", s, pet_type_obj.id, "", body, 201, "",
                         <<pet_type_obj>>, <<>>, <<>>)
        /\ UNCHANGED order_vars

\* GET /pet-types/{id} that finds no type, whatever is registered
get_pet_type_not_found(s, id) ==
    /\ Reply("get_pet_type", s, id, "", EmptyDict, 404, "Not found", <<>>, <<>>, <<>>)
    /\ UNCHANGED catalog_vars
    /\ UNCHANGED order_vars

\* GET /pet-types/{id}
get_pet_type(s, id) ==
    /\ IF id \notin DOMAIN pet_types[s]
         THEN Reply("get_pet_type", s, id, "", EmptyDict, 404, "Not found",
                    <<>>, <<>>, <<>>)
       ELSE Reply("get_pet_type", s, id, "", EmptyDict, 200, "",
                  <<pet_types[s][id]>>, <<>>, <<>>)
    /\ UNCHANGED catalog_vars
    /\ UNCHANGED order_vars

\* DELETE /pet-types/{id}
delete_pet_type(s, id) ==
    /\ IF id \notin DOMAIN pet_types[s]
         THEN /\ Reply("delete_pet_type", s, id, "", EmptyDict, 404, "Not found",
                       <<>>, <<>>, <<>>)
              /\ UNCHANGED catalog_vars
       ELSE IF pet_types[s][id].pets # <<>>
         THEN /\ Reply("delete_pet_type", s, id, "", EmptyDict, 400, "Malformed data",
                       <<>>, <<>>, <<>>)
              /\ UNCHANGED catalog_vars
       ELSE /\ remove_pet_type(s, id)
            /\ UNCHANGED <<next_pet_type_id, pictures>>
            /\ Reply("delete_pet_type", s, id, "", EmptyDict, 204, "", <<>>, <<>>, <<>>)
    /\ UNCHANGED order_vars

\* The file name pet_{abs(hash(picture_url))}{ext}: one name per URL and
\* extension (hash is taken to be injective on the URLs used).
FileName(picture_url, ext) ==
    CASE picture_url = "http://img/1" /\ ext = ".jpg" -> "pet_1.jpg"
      [] picture_url = "http://img/1" /\ ext = ".png" -> "pet_1.png"
      [] picture_url = "http://img/2" /\ ext = ".jpg" -> "pet_2.jpg"
      [] picture_url = "http://img/2" /\ ext = ".png" -> "pet_2.png"
      [] OTHER -> "pet_0.jpg"

\* _download_picture: http is what the picture's server answers
_download_picture(picture_url, http) ==
    IF http.status_code # 200
      THEN [exc |-> "NinjaApiError", status_code |-> http.status_code, file_name |-> ""]
    ELSE [exc |-> "None", status_code |-> 200,
          file_name |-> FileName(picture_url,
                                 IF http.content_type = "image/png" THEN ".png"
                                 ELSE ".jpg")]

\* The birthdate taken from the body alone
PetBirthdate_from_body(body, has_existing, old) ==
    IF "birthdate" \in DOMAIN body THEN body["birthdate"] ELSE NA

\* The birthdate _build_or_update_pet stores, lines 204 and 218-221
PetBirthdate(body, has_existing, old) ==
    IF has_existing /\ "birthdate" \notin DOMAIN body THEN old.birthdate
    ELSE IF "birthdate" \in DOMAIN body THEN body["birthdate"] ELSE NA

\* Whether _build_or_update_pet keeps the picture of the existing pet.
KeepsPicture(body, old) ==
    \/ "picture-url" \notin DOMAIN body
    \/ body["picture-url"] = old.picture_url

\* The condition of the download, app.py:233
ShouldDownload(picture_url, has_existing, picture, old) ==
    Truthy(picture_url) /\ (~has_existing \/ picture # old.picture)

\* _build_or_update_pet on the pictures folder pics; existing is <<>> or <<pet>>.
\* Returns the exception raised ("None": internal was returned), the folder
\* afterwards and the calls made.
_build_or_update_pet(pics, body, existing, http) ==
    LET has_existing == existing # <<>>
        old == existing[1]
        birthdate0 == IF "birthdate" \in DOMAIN body THEN body["birthdate"] ELSE NA
        url0 == IF "picture-url" \in DOMAIN body THEN body["picture-url"] ELSE None
        birthdate == PetBirthdate(body, has_existing, old)
        picture1 == IF has_existing /\ KeepsPicture(body, old) THEN old.picture ELSE NA
        picture_url == IF has_existing /\ "picture-url" \notin DOMAIN body
                         THEN old.picture_url ELSE url0
        old_picture_file == IF has_existing /\ ~KeepsPicture(body, old)
                              THEN old.picture ELSE None
        download == ShouldDownload(picture_url, has_existing, picture1, old)
        dl == _download_picture(picture_url, http)
        picture == IF download THEN dl.file_name ELSE picture1
        remove == old_picture_file # None /\ old_picture_file # NA
        failed(exc, code, downloads) ==
            [exc |-> exc, status_code |-> code, pictures |-> pics,
             internal |-> [name |-> "", birthdate |-> NA, picture |-> NA,
                           picture_url |-> None],
             downloads |-> downloads, removals |-> <<>>]
    IN  IF "name" \notin DOMAIN body
          THEN failed("ValueError", 0, <<>>)
        ELSE IF birthdate0 # NA /\ ~parse_date_ok(birthdate0)
          THEN failed("ValueError", 0, <<>>)
        ELSE IF download /\ dl.exc # "None"
          THEN failed(dl.exc, dl.status_code, <<picture_url>>)
        ELSE [exc |-> "None", status_code |-> 0,
              pictures |-> (IF download THEN pics \cup {dl.file_name} ELSE pics)
                             \ (IF remove THEN {old_picture_file} ELSE {}),
              internal |-> [name |-> body["name"], birthdate |-> birthdate,
                            picture |-> picture, picture_url |-> picture_url],
              downloads |-> IF download THEN <<picture_url>> ELSE <<>>,
              removals |-> IF remove THEN <<old_picture_file>> ELSE <<>>]

\* Whether storing internal_pet under type id keeps the instance within MaxPets
WithinMaxPets(s, id, pet_name) ==
    Contains(pet_types[s][id].pets, pet_name) \/ TotalPets(s) < MaxPets

\* POST /pet-types/{id}/pets
create_pet(s, id, body, http) ==
    LET r == _build_or_update_pet(pictures[s], body, <<>>, http)
        fail(code, error, downloads) ==
            /\ Reply("create_pet", s, id, "", body, code, error, <<>>, downloads, <<>>)
            /\ UNCHANGED catalog_vars
    IN  /\ IF id \notin DOMAIN pet_types[s]
             THEN fail(404, "Not found", <<>>)
           ELSE IF r.exc = "ValueError"
             THEN fail(400, "Malformed data", <<>>)
           ELSE IF r.exc = "NinjaApiError"
             THEN fail(500, "API response code", r.downloads)
           ELSE /\ WithinMaxPets(s, id, r.internal.name)
                /\ add_pet(s, id, r.internal)
                /\ pictures' = [pictures EXCEPT ![s] = r.pictures]
                /\ UNCHANGED <<type_name_to_id, next_pet_type_id>>
                /\ Reply("create_pet", s, id, "", body, 201, "",
                         <<pet_to_json(r.internal)>>, r.downloads, r.removals)
        /\ UNCHANGED order_vars

\* GET /pet-types/{id}/pets without filters: status and JSON list (in the
\* order of the map's values, which no caller modelled here depends on)
list_pets(s, id) ==
    IF id \notin DOMAIN pet_types[s]
      THEN [status_code |-> 404, json |-> {}]
    ELSE [status_code |-> 200,
          json |-> {pet_to_json(get_pets_for_type(s, id)[k]) :
                      k \in DOMAIN get_pets_for_type(s, id)}]

\* GET /pet-types without filters: status and JSON list, in the order of
\* pet_types' values (ids are inserted in increasing order)
RECURSIVE ValuesById(_, _)
ValuesById(d, from) ==
    IF \A k \in DOMAIN d : k < from THEN <<>>
    ELSE IF from \in DOMAIN d THEN <<d[from]>> \o ValuesById(d, from + 1)
         ELSE ValuesById(d, from + 1)
list_pet_types(s) == [status_code |-> 200, json |-> ValuesById(pet_types[s], 1)]

\* Status of DELETE /pet-types/{id}/pets/{name}
delete_pet_route_status(s, id, name) ==
    IF id \notin DOMAIN pet_types[s] THEN 404
    ELSE IF Lower(name) \notin DOMAIN get_pets_for_type(s, id) THEN 404
    ELSE 204

\* What DELETE /pet-types/{id}/pets/{name} does to instance s
delete_pet_route_effect(s, id, name) ==
    IF delete_pet_route_status(s, id, name) # 204
      THEN UNCHANGED catalog_vars
    ELSE LET pet == pets_by_type[s][id][Lower(name)]
         IN  /\ delete_pet(s, id, name)
             /\ pictures' = [pictures EXCEPT
                               ![s] = IF pet.picture # NA THEN @ \ {pet.picture} ELSE @]
             /\ UNCHANGED <<type_name_to_id, next_pet_type_id>>

\* DELETE /pet-types/{id}/pets/{name}, from a catalog client
delete_pet_route(s, id, name) ==
    LET code == delete_pet_route_status(s, id, name)
        pet == pets_by_type[s][id][Lower(name)]
    IN  /\ delete_pet_route_effect(s, id, name)
        /\ Reply("delete_pet_route", s, id, name, EmptyDict, code,
                 IF code = 204 THEN "" ELSE "Not found", <<>>, <<>>,
                 IF code = 204 /\ pet.picture # NA THEN <<pet.picture>> ELSE <<>>)
        /\ UNCHANGED order_vars

\* PUT /pet-types/{id}/pets/{name}
update_pet(s, id, name, body, http) ==
    LET pets_map == get_pets_for_type(s, id)
        existing == pets_map[Lower(name)]
        r == _build_or_update_pet(pictures[s], body, <<existing>>, http)
        fail(code, error, downloads) ==
            /\ Reply("update_pet", s, id, name, body, code, error, <<>>, downloads, <<>>)
            /\ UNCHANGED catalog_vars
    IN  /\ IF id \notin DOMAIN pet_types[s]
             THEN fail(404, "Not found", <<>>)
           ELSE IF Lower(name) \notin DOMAIN pets_map
             THEN fail(404, "Not found", <<>>)
           ELSE IF r.exc = "ValueError"
             THEN fail(400, "Malformed data", <<>>)
           ELSE IF r.exc = "NinjaApiError"
             THEN fail(500, "API response code", r.downloads)
           ELSE /\ WithinMaxPets(s, id, r.internal.name)
                /\ add_pet(s, id, r.internal)
                /\ pictures' = [pictures EXCEPT ![s] = r.pictures]
                /\ UNCHANGED <<type_name_to_id, next_pet_type_id>>
                /\ Reply("update_pet", s, id, name, body, 200, "",
                         <<pet_to_json(r.internal)>>, r.downloads, r.removals)
        /\ UNCHANGED order_vars

\* GET /pictures/{file_name}
get_picture(s, file_name) ==
    /\ IF file_name \notin pictures[s]
         THEN Reply("get_picture", s, 0, file_name, EmptyDict, 404, "Not found",
                    <<>>, <<>>, <<>>)
       ELSE Reply("get_picture", s, 0, file_name, EmptyDict, 200, "", <<>>, <<>>, <<>>)
    /\ UNCHANGED catalog_vars
    /\ UNCHANGED order_vars

\* ------------------------------------------------------------------------
\* Order service (src/pet-order/app.py).  A purchase request is handled by a
\* worker in steps, one per remote call; between two steps the catalog
\* instances serve whoever else calls them.
\* ------------------------------------------------------------------------

NoOrderReply == [status |-> 0, error |-> "", json |-> <<>>]
No_pet == "No pet of this type is available"

\* data.get(key), for the keys that hold strings
Get(body, key) == IF key \in DOMAIN body THEN body[key] ELSE None

\* The body of a purchase request; store and the strings may be Absent
PurchaseJson(pet_type, has_store, store, pet_name) ==
    [k \in {x \in {"purchaser", "pet-type", "store", "pet-name"} :
              \/ x = "purchaser"
              \/ x = "pet-type" /\ pet_type # Absent
              \/ x = "store" /\ has_store
              \/ x = "pet-name" /\ pet_name # Absent} |->
        CASE k = "purchaser" -> "bob"
          [] k = "pet-type" -> pet_type
          [] k = "store" -> store
          [] k = "pet-name" -> pet_name]

\* The validation of create_purchase, lines 78-90: TRUE when it answers 400
Malformed(body) ==
    \/ "purchaser" \notin DOMAIN body
    \/ "pet-type" \notin DOMAIN body
    \/ "store" \in DOMAIN body /\ body["store"] \notin {1, 2}
    \/ "store" \notin DOMAIN body /\ Get(body, "pet-name") # None

\* Store 2 before store 1 when the request names no store
StoresToCheck_reversed(body) ==
    IF "store" \in DOMAIN body /\ body["store"] = 1 THEN <<1>>
    ELSE IF "store" \in DOMAIN body /\ body["store"] = 2 THEN <<2>>
    ELSE <<2, 1>>

\* stores_to_check, lines 92-98 (a store stands for its URL)
StoresToCheck(body) ==
    IF "store" \in DOMAIN body /\ body["store"] = 1 THEN <<1>>
    ELSE IF "store" \in DOMAIN body /\ body["store"] = 2 THEN <<2>>
    ELSE <<1, 2>>

\* get_pet_type_id: <<>> for None, else <<id>>
get_pet_type_id(s, pet_type) ==
    LET r == list_pet_types(s)
        hits == SelectSeq(r.json, LAMBDA pt : Lower(pt.type) = Lower(pet_type))
    IN  IF r.status_code # 200 THEN <<>>
        ELSE IF hits = <<>> THEN <<>>
        ELSE <<Head(hits).id>>

\* get_pets: the pets listed, [] on any status but 200
get_pets(s, id) ==
    LET r == list_pets(s, id)
    IN  IF r.status_code # 200 THEN {} ELSE r.json

\* The pets among which lines 111-118 choose, given the request's pet-name
Candidates(pets, pet_name) ==
    IF Truthy(pet_name)
      THEN {p \in pets : Lower(p.name) = Lower(pet_name)}
    ELSE pets

\* The worker answers and is free again
Finish(w, code, error, json) ==
    /\ pc' = [pc EXCEPT ![w] = "idle"]
    /\ order_resp' = [order_resp EXCEPT
                        ![w] = [status |-> code, error |-> error, json |-> json]]

\* "continue", or the end of the loop over stores_to_check with chosen = None
NextStore(w) ==
    /\ stores_to_check' = [stores_to_check EXCEPT ![w] = Tail(@)]
    /\ IF Tail(stores_to_check[w]) = <<>>
         THEN Finish(w, 400, No_pet, <<>>)
       ELSE /\ pc' = [pc EXCEPT ![w] = "get_pet_type_id"]
            /\ UNCHANGED order_resp

\* POST /purchases arrives: lines 68-98
create_purchase(w, body) ==
    /\ pc[w] = "idle"
    /\ n_purchases[w] < MaxPurchases
    /\ n_purchases' = [n_purchases EXCEPT ![w] = @ + 1]
    /\ data' = [data EXCEPT ![w] = body]
    /\ chosen' = [chosen EXCEPT ![w] = <<>>]
    /\ status' = [status EXCEPT ![w] = 0]
    /\ tried' = [tried EXCEPT ![w] = <<>>]
    /\ pet_type_id' = [pet_type_id EXCEPT ![w] = 0]
    /\ IF Malformed(body)
         THEN /\ Finish(w, 400, "Malformed data", <<>>)
              /\ UNCHANGED stores_to_check
       ELSE /\ stores_to_check' = [stores_to_check EXCEPT ![w] = StoresToCheck(body)]
            /\ pc' = [pc EXCEPT ![w] = "get_pet_type_id"]
            /\ UNCHANGED order_resp
    /\ UNCHANGED <<catalog_vars, resp, transactions, removed>>

\* line 103: GET /pet-types at the current store
create_purchase_get_pet_type_id(w) ==
    LET s == Head(stores_to_check[w])
        found == get_pet_type_id(s, data[w]["pet-type"])
    IN  /\ pc[w] = "get_pet_type_id"
        /\ tried' = [tried EXCEPT ![w] = Append(@, s)]
        /\ IF found = <<>>
             THEN /\ NextStore(w)
                  /\ UNCHANGED pet_type_id
           ELSE /\ pet_type_id' = [pet_type_id EXCEPT ![w] = found[1]]
                /\ pc' = [pc EXCEPT ![w] = "get_pets"]
                /\ UNCHANGED <<stores_to_check, order_resp>>
        /\ UNCHANGED <<catalog_vars, resp, transactions, removed, data, chosen,
                       status, n_purchases>>

\* lines 107-121: GET /pet-types/{id}/pets at the current store and the choice
create_purchase_get_pets(w) ==
    LET s == Head(stores_to_check[w])
        pets == get_pets(s, pet_type_id[w])
        among == Candidates(pets, Get(data[w], "pet-name"))
    IN  /\ pc[w] = "get_pets"
        /\ IF among = {}
             THEN /\ NextStore(w)
                  /\ UNCHANGED chosen
           ELSE /\ \E p \in among :
                      chosen' = [chosen EXCEPT
                                   ![w] = <<[store_id |-> s,
                                             pet_type_id |-> pet_type_id[w],
                                             pet_name |-> p.name]>>]
                /\ pc' = [pc EXCEPT ![w] = "delete_pet"]
                /\ UNCHANGED <<stores_to_check, order_resp>>
        /\ UNCHANGED <<catalog_vars, resp, transactions, removed, data, pet_type_id,
                       status, tried, n_purchases>>

\* The status of the DELETE is not looked at: on to the ledger
delete_failed_unchecked(w) ==
    /\ pc' = [pc EXCEPT ![w] = "insert_one"]
    /\ UNCHANGED order_resp

\* lines 129-130: the DELETE answered something else than 204
delete_failed(w) == Finish(w, 400, No_pet, <<>>)

\* lines 128-130: DELETE /pet-types/{id}/pets/{name} at the chosen store
create_purchase_delete_pet(w) ==
    LET c == chosen[w][1]
        code == delete_pet_route_status(c.store_id, c.pet_type_id, c.pet_name)
    IN  /\ pc[w] = "delete_pet"
        /\ delete_pet_route_effect(c.store_id, c.pet_type_id, c.pet_name)
        /\ status' = [status EXCEPT ![w] = code]
        /\ IF code # 204
             THEN /\ delete_failed(w)
                  /\ UNCHANGED removed
           ELSE /\ removed' = Append(removed, [store |-> c.store_id,
                                               pet_name |-> c.pet_name])
                /\ pc' = [pc EXCEPT ![w] = "insert_one"]
                /\ UNCHANGED order_resp
        /\ UNCHANGED <<resp, transactions, data, stores_to_check, pet_type_id,
                       chosen, tried, n_purchases>>

\* The transaction of lines 132-140; the fields are purchaser, pet-type,
\* store, pet-name and purchase-id, the latter a fresh value (uuid4)
Transaction(w) ==
    [purchaser |-> data[w]["purchaser"], pet_type |-> data[w]["pet-type"],
     store |-> chosen[w][1].store_id, pet_name |-> chosen[w][1].pet_name,
     purchase_id |-> Len(transactions) + 1]

\* lines 142-144: insert_one succeeds
create_purchase_insert_one(w) ==
    /\ pc[w] = "insert_one"
    /\ transactions' = Append(transactions, Transaction(w))
    /\ Finish(w, 201, "", <<Transaction(w)>>)
    /\ UNCHANGED <<catalog_vars, resp, removed, data, stores_to_check, pet_type_id,
                   chosen, status, tried, n_purchases>>

\* line 142: insert_one raises (the document store is unreachable); the
\* request ends with a 500 and nothing is stored
create_purchase_insert_one_raises(w) ==
    /\ pc[w] = "insert_one"
    /\ Finish(w, 500, "Internal Server Error", <<>>)
    /\ UNCHANGED <<catalog_vars, resp, transactions, removed, data, stores_to_check,
                   pet_type_id, chosen, status, tried, n_purchases>>

\* GET /kill: os._exit(1) ends the process and with it every request in
\* progress, which never answers; the ledger is another process
kill ==
    /\ \E w \in Workers : pc[w] # "idle"
    /\ pc' = [w \in Workers |-> "idle"]
    /\ order_resp' = [w \in Workers |->
                        IF pc[w] = "idle" THEN order_resp[w]
                        ELSE [status |-> 0, error |-> "killed", json |-> <<>>]]
    /\ UNCHANGED <<catalog_vars, resp, transactions, removed, data, stores_to_check,
                   pet_type_id, chosen, status, tried, n_purchases>>

\* ------------------------------------------------------------------------
\* The catalog alone: one instance and its clients
\* ------------------------------------------------------------------------

TypeNames == {"Australian Shepherd", "australian shepherd", "dragon"}
TypeBodies == {EmptyDict} \cup {[type |-> n] : n \in TypeNames}
TypeIds == 1..MaxTypeId
PetNames == {"Rex", "rex", "Max"}
\* Bodies that name a pet and nothing else, and the body without a name
NameBodies == {Json(n, Absent, Absent) : n \in PetNames \cup {Absent}}
HttpOk == [status_code |-> 200, content_type |-> "image/jpeg"]

Init ==
    /\ pet_types = [s \in Stores |-> EmptyDict]
    /\ pets_by_type = [s \in Stores |-> EmptyDict]
    /\ type_name_to_id = [s \in Stores |-> EmptyDict]
    /\ next_pet_type_id = [s \in Stores |-> 1]
    /\ pictures = [s \in Stores |-> {}]
    /\ resp = NoReply
    /\ transactions = <<>>
    /\ removed = <<>>
    /\ pc = [w \in Workers |-> "idle"]
    /\ data = [w \in Workers |-> EmptyDict]
    /\ stores_to_check = [w \in Workers |-> <<>>]
    /\ pet_type_id = [w \in Workers |-> 0]
    /\ chosen = [w \in Workers |-> <<>>]
    /\ status = [w \in Workers |-> 0]
    /\ tried = [w \in Workers |-> <<>>]
    /\ order_resp = [w \in Workers |-> NoOrderReply]
    /\ n_purchases = [w \in Workers |-> 0]

Next ==
    \/ \E body \in TypeBodies, upstream \in UpstreamAnswers :
          create_pet_type(1, body, upstream)
    \/ \E id \in TypeIds : get_pet_type(1, id)
    \/ \E id \in TypeIds : delete_pet_type(1, id)
    \/ \E id \in TypeIds, body \in NameBodies : create_pet(1, id, body, HttpOk)
    \/ \E id \in TypeIds, name \in PetNames, body \in NameBodies :
          update_pet(1, id, name, body, HttpOk)
    \/ \E id \in TypeIds, name \in PetNames : delete_pet_route(1, id, name)

Spec == Init /\ [][Next]_vars

\* ------------------------------------------------------------------------
\* The order service, the two catalog instances and their clients
\* ------------------------------------------------------------------------

OrderTypeBodies == {[type |-> "bulldog"]}
OrderPetNames == {"Rex", "Max"}
OrderPetBodies == {Json(n, Absent, Absent) : n \in OrderPetNames}
OrderTypeIds == {1}
\* Well-formed requests without and with a store, and three malformed ones:
\* no pet-type, a pet-name without a store, a store that is neither 1 nor 2
PurchaseBodies ==
    {PurchaseJson(t, FALSE, 0, Absent) : t \in {"Bulldog", "abyssinian"}}
    \cup {PurchaseJson("Bulldog", TRUE, s, n) : s \in Stores, n \in {Absent, "", "rex"}}
    \cup {PurchaseJson(Absent, FALSE, 0, Absent), PurchaseJson("Bulldog", FALSE, 0, "rex"),
          PurchaseJson("Bulldog", TRUE, 3, Absent)}

NextOrder ==
    \/ \E s \in Stores, body \in OrderTypeBodies :
          create_pet_type(s, body, CHOOSE u \in UpstreamAnswers : TRUE)
    \/ \E s \in Stores, id \in OrderTypeIds, body \in OrderPetBodies :
          create_pet(s, id, body, HttpOk)
    \/ \E s \in Stores, id \in OrderTypeIds, name \in OrderPetNames :
          delete_pet_route(s, id, name)
    \/ \E body \in PurchaseBodies : create_purchase(1, body)
    \/ create_purchase_get_pet_type_id(1)
    \/ create_purchase_get_pets(1)
    \/ create_purchase_delete_pet(1)
    \/ create_purchase_insert_one(1)
    \/ create_purchase_insert_one_raises(1)
    \/ kill

SpecOrder == Init /\ [][NextOrder]_vars

\* ------------------------------------------------------------------------
\* One catalog instance, its pets with birthdates and pictures
\* ------------------------------------------------------------------------

PictureUrls == {"http://img/1", "http://img/2"}
PicturePetNames == {"Rex", "Max"}
\* "31-02-2020" is no date
PictureBodies ==
    {Json(n, b, u) : n \in PicturePetNames,
                     b \in {Absent, "01-01-2020"},
                     u \in PictureUrls \cup {Absent}}
    \cup {Json("Rex", "31-02-2020", Absent), Json(Absent, Absent, Absent)}
\* What the picture's server answers
HttpAnswers ==
    { [status_code |-> 200, content_type |-> "image/jpeg"],
      [status_code |-> 404, content_type |-> "text/html"] }
FileNames == {FileName(u, ".jpg") : u \in PictureUrls}
PictureTypeIds == {1}

NextPictures ==
    \/ \E upstream \in UpstreamAnswers : create_pet_type(1, [type |-> "bulldog"], upstream)
    \/ \E id \in PictureTypeIds, body \in PictureBodies, http \in HttpAnswers :
          create_pet(1, id, body, http)
    \/ \E id \in PictureTypeIds, name \in PicturePetNames, body \in PictureBodies,
          http \in HttpAnswers :
          update_pet(1, id, name, body, http)
    \/ \E id \in PictureTypeIds, name \in PicturePetNames : delete_pet_route(1, id, name)
    \/ \E file_name \in FileNames : get_picture(1, file_name)

SpecPictures == Init /\ [][NextPictures]_vars

\* ------------------------------------------------------------------------
\* Claims on the catalog (specification Spec)
\* ------------------------------------------------------------------------

\* The step is the handling of a request by handler op
Handled(op) == resp'.op = op /\ resp' # resp

\* Some type registered at instance s is named type_name, ignoring case
Registered(s, type_name) ==
    \E id \in DOMAIN pet_types[s] : Lower(pet_types[s][id].type) = Lower(type_name)

\* C1: POST /pet-types with a name that equals, ignoring case, the name of a
\* type registered at the instance answers 400 and changes nothing, whatever
\* the taxonomy lookup answers; and no two registered types ever have names
\* that are equal ignoring case.
C1_DuplicateTypeRejected ==
    /\ [][(/\ Handled("create_pet_type")
           /\ "type" \in DOMAIN resp'.data
           /\ Registered(1, resp'.data["type"]))
          => (/\ resp'.status = 400
              /\ UNCHANGED catalog_vars)]_vars
    /\ [](\A id1, id2 \in DOMAIN pet_types[1] :
            Lower(pet_types[1][id1].type) = Lower(pet_types[1][id2].type) => id1 = id2)

\* C1's case: "Australian Shepherd" was refused while "australian shepherd"
\* is registered
C1_Witness ==
    /\ resp.op = "create_pet_type"
    /\ resp.status = 400
    /\ resp.data = [type |-> "Australian Shepherd"]
    /\ \E id \in DOMAIN pet_types[1] : pet_types[1][id].type = "australian shepherd"

\* C2: DELETE /pet-types/{id} on a registered type answers 400 and changes
\* nothing while the type holds a pet, and answers 204 and removes the type
\* once it holds none.
C2_TypeDeletion ==
    [][\A id \in TypeIds :
         (/\ Handled("delete_pet_type")
          /\ resp'.id = id
          /\ id \in DOMAIN pet_types[1])
         => IF pets_by_type[1][id] # EmptyDict
              THEN resp'.status = 400 /\ UNCHANGED catalog_vars
            ELSE /\ resp'.status = 204
                 /\ id \notin DOMAIN pet_types'[1]
                 /\ id \notin DOMAIN pets_by_type'[1]]_vars

\* C2's case: the deletion of a type that holds a pet was refused
C2_Witness ==
    /\ resp.op = "delete_pet_type"
    /\ resp.status = 400
    /\ resp.id \in DOMAIN pets_by_type[1]
    /\ pets_by_type[1][resp.id] # EmptyDict

\* C9: the "pets" list of every type holds no two names equal ignoring case
\* and exactly one entry for each pet stored for the type.
C9_PetsListMatchesMap ==
    \A id \in DOMAIN pet_types[1] :
        LET pets == pet_types[1][id].pets
        IN  /\ \A i, j \in 1..Len(pets) : Lower(pets[i]) = Lower(pets[j]) => i = j
            /\ {pets[i] : i \in 1..Len(pets)}
                 = {pets_by_type[1][id][k].name : k \in DOMAIN pets_by_type[1][id]}

\* C10: POST /pet-types {"type": "Australian Shepherd"}, no such type being
\* registered, answers 201 with family Canidae, genus Canis, lifespan 15 and
\* the attributes loyal, outgoing, and, friendly, all lowercase.
C10_AustralianShepherd ==
    [][(/\ Handled("create_pet_type")
        /\ resp'.data = [type |-> "Australian Shepherd"]
        /\ ~Registered(1, "Australian Shepherd"))
       => (/\ resp'.status = 201
           /\ resp'.json[1].family = "Canidae"
           /\ resp'.json[1].genus = "Canis"
           /\ resp'.json[1].lifespan = 15
           /\ resp'.json[1].attributes = <<"loyal", "outgoing", "and", "friendly">>)]_vars

\* ------------------------------------------------------------------------
\* Claims on pets' birthdates and pictures (specification SpecPictures)
\* ------------------------------------------------------------------------

\* C7: a PUT on an existing pet whose body's picture-url differs from the URL
\* stored for the pet makes exactly one download, of the new URL, removes the
\* pet's previous picture file (exactly one removal, when it had one) and
\* stores the downloaded file as the picture; with the stored URL it makes no
\* download and no removal and keeps the picture. For every prior state of the
\* pet, a pet without a picture included.
C7_PictureUrlChange ==
    [][(/\ Handled("update_pet")
        /\ resp'.status = 200
        /\ "picture-url" \in DOMAIN resp'.data)
       => LET old == pets_by_type[1][resp'.id][Lower(resp'.name)]
              new == pets_by_type'[1][resp'.id][Lower(resp'.data["name"])]
              url == resp'.data["picture-url"]
          IN  IF url # old.picture_url
                THEN /\ resp'.downloads = <<url>>
                     /\ old.picture # NA => resp'.removals = <<old.picture>>
                     /\ new.picture \in {FileName(url, ".jpg"), FileName(url, ".png")}
              ELSE /\ resp'.downloads = <<>>
                   /\ resp'.removals = <<>>
                   /\ new.picture = old.picture]_vars

\* C8: a PUT answered 200 whose body has no birthdate stores and returns the
\* birthdate the pet had; one whose body has no picture-url stores the picture
\* file name and source URL the pet had, downloads nothing and removes no file.
C8_OmittedFieldsKept ==
    [][(Handled("update_pet") /\ resp'.status = 200)
       => LET old == pets_by_type[1][resp'.id][Lower(resp'.name)]
              new == pets_by_type'[1][resp'.id][Lower(resp'.data["name"])]
              addressed == pets_by_type'[1][resp'.id][Lower(resp'.name)]
          IN  /\ "birthdate" \notin DOMAIN resp'.data
                   => /\ new.birthdate = old.birthdate
                      /\ addressed.birthdate = old.birthdate
                      /\ resp'.json[1].birthdate = old.birthdate
              /\ "picture-url" \notin DOMAIN resp'.data
                   => /\ new.picture = old.picture
                      /\ new.picture_url = old.picture_url
                      /\ addressed.picture = old.picture
                      /\ addressed.picture_url = old.picture_url
                      /\ resp'.json[1].picture = old.picture
                      /\ resp'.downloads = <<>>
                      /\ resp'.removals = <<>>
                      /\ pictures' = pictures]_vars

\* C8's case: a PUT with only a name was answered 200 for a pet that has a
\* birthdate and a picture
C8_Witness ==
    /\ resp.op = "update_pet"
    /\ resp.status = 200
    /\ DOMAIN resp.data = {"name"}
    /\ resp.data["name"] = resp.name
    /\ LET pet == pets_by_type[1][resp.id][Lower(resp.name)]
       IN  /\ pet.birthdate = "01-01-2020"
           /\ pet.picture = "pet_1.jpg"
           /\ pet.picture_url = "http://img/1"

\* ------------------------------------------------------------------------
\* Claims on purchases (specification SpecOrder)
\* ------------------------------------------------------------------------

\* Entries of seq (removals or transactions) naming store s and pet n
CountOf(seq, s, n) ==
    Len(SelectSeq(seq, LAMBDA e : e.store = s /\ e.pet_name = n))

\* C3: whenever no purchase request is in progress, every pet the order
\* service removed from a store has exactly one transaction naming that store
\* and pet, and every transaction one such removal; also after GET /kill and
\* after a failed ledger insert.
C3_PurchaseAtomic ==
    (\A w \in Workers : pc[w] = "idle")
        => \A s \in Stores, n \in OrderPetNames :
              CountOf(removed, s, n) = CountOf(transactions, s, n)

\* The request of worker w is well-formed and names no store / names a store
NamesNoStore(w) ==
    data[w] # EmptyDict /\ ~Malformed(data[w]) /\ "store" \notin DOMAIN data[w]
NamesStore(w) ==
    data[w] # EmptyDict /\ ~Malformed(data[w]) /\ "store" \in DOMAIN data[w]

\* Instance s holds a pet named name under a type named pet_type, ignoring case
PetOfTypeAt(s, pet_type, name) ==
    \E id \in DOMAIN pet_types[s] :
        /\ Lower(pet_types[s][id].type) = Lower(pet_type)
        /\ \E k \in DOMAIN pets_by_type[s][id] : pets_by_type[s][id][k].name = name

\* Instance s holds some pet under a type named pet_type, ignoring case
HasPetOfType(s, pet_type) ==
    \E id \in DOMAIN pet_types[s] :
        Lower(pet_types[s][id].type) = Lower(pet_type) /\ pets_by_type[s][id] # EmptyDict

\* C4: when the remote deletion of the selected pet answers anything but 204,
\* the purchase answers 400 "No pet of this type is available", asks no
\* further store and appends no transaction.
C4_DeleteFailureEndsPurchase ==
    [][\A w \in Workers :
         (pc[w] = "delete_pet" /\ status'[w] \notin {0, 204})
         => (/\ pc'[w] = "idle"
             /\ order_resp'[w] = [status |-> 400, error |-> No_pet, json |-> <<>>]
             /\ tried'[w] = tried[w]
             /\ transactions' = transactions
             /\ removed' = removed)]_vars

\* C4's case: a purchase naming no store chose a pet of store 1, its DELETE
\* answered 404, the purchase answered 400 without asking store 2, which
\* holds a pet of the type, and the ledger is empty
C4_Witness ==
    /\ pc[1] = "idle"
    /\ NamesNoStore(1)
    /\ status[1] = 404
    /\ order_resp[1] = [status |-> 400, error |-> No_pet, json |-> <<>>]
    /\ tried[1] = <<1>>
    /\ HasPetOfType(2, data[1]["pet-type"])
    /\ transactions = <<>>

\* The step is one of worker w's own request (not the process being killed)
StepOf(w) ==
    /\ pc[w] # "idle"
    /\ pc'[w] # pc[w] \/ stores_to_check'[w] # stores_to_check[w]
    /\ order_resp'[w].error # "killed"

\* C5, as stated: a purchase naming no store that found nothing at store 1
\* and a pet of the type at store 2 answers 201 with store 2 in the
\* transaction.
C5_SecondStoreAlwaysServes ==
    \A w \in Workers :
        (/\ pc[w] = "idle"
         /\ NamesNoStore(w)
         /\ order_resp[w].status # 0
         /\ tried[w] = <<1, 2>>
         /\ chosen[w] # <<>>)
        => (order_resp[w].status = 201 /\ order_resp[w].json[1].store = 2)

\* C5, amended: a purchase naming no store asks store 1, then store 2, and
\* selects at the first of them where it finds the type (ignoring case) and
\* a non-empty list of its pets: it passes store 1 only when it found no such
\* pet there, the pet selected is one the store asked last holds under that
\* type, and with a non-empty list at store 1 the pet is one of store 1; a
\* DELETE answered 204 has removed the pet from that store, and the ledger
\* insert, when it succeeds, answers 201 and records that store and pet.
C5_StoreOrder ==
    [][\A w \in Workers :
         (NamesNoStore(w) /\ StepOf(w))
         => LET pet_type == data[w]["pet-type"]
                s == Head(stores_to_check[w])
                c == chosen'[w][1]
            IN  /\ (stores_to_check'[w] # stores_to_check[w])
                     => /\ stores_to_check[w] \in {<<1, 2>>, <<2>>}
                        /\ \/ pc[w] = "get_pet_type_id" /\ ~Registered(s, pet_type)
                           \/ pc[w] = "get_pets" /\ get_pets(s, pet_type_id[w]) = {}
                /\ (pc[w] = "get_pets" /\ get_pets(s, pet_type_id[w]) # {})
                     => pc'[w] = "delete_pet"
                /\ (pc'[w] = "delete_pet")
                     => /\ c.store_id = s
                        /\ tried[w] \in {<<1>>, <<1, 2>>}
                        /\ tried[w][Len(tried[w])] = s
                        /\ PetOfTypeAt(s, pet_type, c.pet_name)
                /\ (pc[w] = "delete_pet" /\ status'[w] = 204)
                     => /\ ~(PetOfTypeAt(chosen[w][1].store_id, pet_type,
                                         chosen[w][1].pet_name))'
                        /\ pc'[w] = "insert_one"
                /\ (pc[w] = "insert_one" /\ order_resp'[w].status # 500)
                     => /\ order_resp'[w].status = 201
                        /\ order_resp'[w].json[1].store = chosen[w][1].store_id
                        /\ order_resp'[w].json[1].pet_name = chosen[w][1].pet_name
                        /\ transactions' = Append(transactions, order_resp'[w].json[1])
                        /\ CountOf(removed, chosen[w][1].store_id, chosen[w][1].pet_name) > 0]_vars

\* C5's case: store 1 had no pet of the type, the purchase was served by
\* store 2 and answered 201
C5_Witness ==
    /\ pc[1] = "idle"
    /\ NamesNoStore(1)
    /\ tried[1] = <<1, 2>>
    /\ order_resp[1].status = 201
    /\ order_resp[1].json[1].store = 2
    /\ transactions = order_resp[1].json
    /\ removed = <<[store |-> 2, pet_name |-> order_resp[1].json[1].pet_name]>>

\* C6: a purchase naming store s and a pet name that matches, ignoring case,
\* no pet of the type listed at store s answers 400, removes no pet from
\* either store and appends no transaction.
C6_UnknownNameFails ==
    [][\A w \in Workers :
         (/\ NamesStore(w)
          /\ "pet-name" \in DOMAIN data[w]
          /\ StepOf(w)
          /\ pc[w] = "get_pets"
          /\ \A p \in get_pets(Head(stores_to_check[w]), pet_type_id[w]) :
                Lower(p.name) # Lower(data[w]["pet-name"]))
         => (/\ pc'[w] = "idle"
             /\ order_resp'[w] = [status |-> 400, error |-> No_pet, json |-> <<>>]
             /\ UNCHANGED <<catalog_vars, transactions, removed>>)]_vars

\* ------------------------------------------------------------------------
\* Further claims on the catalog (specification Spec)
\* ------------------------------------------------------------------------

\* The step is GET /pet-types/{pid} right after the POST /pet-types that
\* answered 201 with identifier pid
GetAfterPost ==
    /\ resp.op = "create_pet_type"
    /\ resp.status = 201
    /\ Handled("get_pet_type")
    /\ resp'.id = resp.json[1].id

C13_PutChangesAddressedPetOnly ==
    [][\A id \in TypeIds :
         (/\ Handled("update_pet")
          /\ resp'.id = id
          /\ id \in DOMAIN pets_by_type[1])
         => LET before == pets_by_type[1][id]
                after == pets_by_type'[1][id]
                addressed == Lower(resp'.name)
            IN  /\ Cardinality(DOMAIN after) = Cardinality(DOMAIN before)
                /\ \A k \in (DOMAIN before \cup DOMAIN after) \ {addressed} :
                      k \in DOMAIN before /\ k \in DOMAIN after /\ after[k] = before[k]
                /\ \A other \in DOMAIN pets_by_type[1] \ {id} :
                      pets_by_type'[1][other] = pets_by_type[1][other]]_vars

\* ------------------------------------------------------------------------
\* Two purchases at once: the stores are stocked, then two requests run with
\* their remote calls interleaved and no other client of the stores
\* ------------------------------------------------------------------------

\* No purchase request has arrived yet
NoPurchaseYet == \A w \in Workers : n_purchases[w] = 0

\* Well-formed requests for the one type: at any store, and at store 2 by name
RaceBodies ==
    {PurchaseJson("Bulldog", FALSE, 0, Absent), PurchaseJson("Bulldog", TRUE, 2, "rex")}

NextRace ==
    \/ /\ NoPurchaseYet
       /\ \E s \in Stores, body \in OrderTypeBodies :
             create_pet_type(s, body, CHOOSE u \in UpstreamAnswers : TRUE)
    \/ /\ NoPurchaseYet
       /\ \E s \in Stores, id \in OrderTypeIds, body \in OrderPetBodies :
             create_pet(s, id, body, HttpOk)
    \/ \E w \in Workers, body \in RaceBodies : create_purchase(w, body)
    \/ \E w \in Workers : create_purchase_get_pet_type_id(w)
    \/ \E w \in Workers : create_purchase_get_pets(w)
    \/ \E w \in Workers : create_purchase_delete_pet(w)
    \/ \E w \in Workers : create_purchase_insert_one(w)
    \/ \E w \in Workers : create_purchase_insert_one_raises(w)
    \/ kill

SpecRace == Init /\ [][NextRace]_vars

\* ------------------------------------------------------------------------
\* Claims on concurrent purchases (specification SpecRace)
\* ------------------------------------------------------------------------

\* The pets the stores held when the purchases began, as <<store, name>>:
\* those they hold now and those the purchases removed
PetsAtStart ==
    UNION {UNION {{<<s, pets_by_type[s][id][k].name>> : k \in DOMAIN pets_by_type[s][id]} :
                    id \in DOMAIN pets_by_type[s]} : s \in Stores}
    \cup {<<removed[i].store, removed[i].pet_name>> : i \in 1..Len(removed)}

\* Purchases have begun, on stores that held exactly one pet
OnePetAtStart ==
    /\ ~NoPurchaseYet
    /\ Cardinality(PetsAtStart) = 1

\* Worker w's request was answered (the process was not killed under it)
Answered(w) == pc[w] = "idle" /\ data[w] # EmptyDict /\ order_resp[w].status # 0

\* C12: with exactly one pet of the type in the stores and purchase requests
\* for the type running interleaved, at most one request answers 201, the
\* ledger gains at most one transaction and the stores lose at most one pet;
\* once two requests are answered, one of them has answered 400 "No pet of
\* this type is available".
C12_LastPetSoldOnce ==
    OnePetAtStart
    => /\ \A w1, w2 \in Workers :
             (order_resp[w1].status = 201 /\ order_resp[w2].status = 201) => w1 = w2
       /\ Len(transactions) <= 1
       /\ Len(removed) <= 1
       /\ (\A w \in Workers : Answered(w))
             => \E w \in Workers :
                   order_resp[w] = [status |-> 400, error |-> No_pet, json |-> <<>>]

\* C12's case: both requests listed the one pet and chose it, the DELETE of
\* one answered 204 and that of the other 404; one answered 201, the other 400
C12_Witness ==
    /\ OnePetAtStart
    /\ \A w \in Workers : Answered(w) /\ chosen[w] # <<>>
    /\ chosen[1] = chosen[2]
    /\ status[1] = 204 /\ order_resp[1].status = 201
    /\ status[2] = 404 /\ order_resp[2].status = 400
    /\ Len(transactions) = 1

\* ------------------------------------------------------------------------
\* Further claims on pictures (specification SpecPictures)
\* ------------------------------------------------------------------------

\* C14: every stored pet whose picture is not "NA" names a file that is in
\* the pictures folder, so that GET /pictures/{file} answers 200 for it, also
\* after a pet made from the same picture URL was deleted or given another
\* picture.
C14_StoredPicturesExist ==
    \A id \in DOMAIN pets_by_type[1] :
        \A k \in DOMAIN pets_by_type[1][id] :
            pets_by_type[1][id][k].picture # NA
                => pets_by_type[1][id][k].picture \in pictures[1]

====
